---------------------------- MODULE Spec2Model ----------------------------
(***************************************************************************)
(* A model of trio_http_proxy.py: an HTTP CONNECT proxy on trio.           *)
(*                                                                         *)
(* Bytes are one-character strings, byte strings are sequences of them.    *)
(* One handler task (http_proxy) runs per accepted connection; during the  *)
(* relay phase its nursery holds two pipe tasks.  A task step runs from    *)
(* one suspension point (an await on the network) to the next.             *)
(***************************************************************************)
EXTENDS Naturals, Integers, Sequences, FiniteSets, TLC

(***************************************************************************)
(* Bounds of the model.                                                    *)
(***************************************************************************)
\* longest payload a peer sends into one direction of a tunnel (Spec)
MaxData == 3
\* longest payload per direction when two connections run (SpecMulti)
MaxDataMulti == 1
\* most bytes a send_all has written when it fails or is cancelled
MaxPartial == 2
\* the value of BUFMAXLEN in the runs that fill a buffer (SpecSmall): as
\* long as the shortest valid request
SmallBufMaxLen == 19

(***************************************************************************)
(* Program constants.                                                      *)
(***************************************************************************)
BUFMAXLEN == 16384
\* (mutant: port 80 let through)
OK_CONNECT_PORTS_with_80 == {443, 8443, 80}
OK_CONNECT_PORTS == {443, 8443}

\* b'HTTP/1.1 200 Connection established\r\n\r\n'
RESPONSE_200 ==
  <<"H","T","T","P","/","1",".","1"," ","2","0","0"," ",
    "C","o","n","n","e","c","t","i","o","n"," ",
    "e","s","t","a","b","l","i","s","h","e","d","\r","\n","\r","\n">>

(***************************************************************************)
(* Byte-string helpers (Python's bytes / str methods).                     *)
(***************************************************************************)
Min(a, b) == IF a <= b THEN a ELSE b

\* the ASCII whitespace bytes.split() splits on
WHITESPACE == {" ", "\t", "\n", "\r", "\f"}

DIGITS == {"0","1","2","3","4","5","6","7","8","9"}

DigitVal(ch) ==
  CASE ch = "0" -> 0 [] ch = "1" -> 1 [] ch = "2" -> 2 [] ch = "3" -> 3
    [] ch = "4" -> 4 [] ch = "5" -> 5 [] ch = "6" -> 6 [] ch = "7" -> 7
    [] ch = "8" -> 8 [] ch = "9" -> 9

\* a byte >= 0x80 that is no valid UTF-8 on its own
NONASCII == {"\\xff"}

IsPrefix(p, s) == Len(p) <= Len(s) /\ SubSeq(s, 1, Len(p)) = p

\* bytes.endswith(suffix)
endswith(s, suffix) ==
  /\ Len(suffix) <= Len(s)
  /\ SubSeq(s, Len(s) - Len(suffix) + 1, Len(s)) = suffix

\* first index >= i of s holding no whitespace (Len(s)+1 when there is none)
SkipSpace(s, i) ==
  LET stops == {j \in i..Len(s) : s[j] \notin WHITESPACE}
  IN  IF stops = {} THEN Len(s) + 1
      ELSE CHOOSE j \in stops : \A k \in stops : j <= k

\* first index >= i of s holding whitespace (Len(s)+1 when there is none)
SkipWord(s, i) ==
  LET stops == {j \in i..Len(s) : s[j] \in WHITESPACE}
  IN  IF stops = {} THEN Len(s) + 1
      ELSE CHOOSE j \in stops : \A k \in stops : j <= k

\* bytes.split(maxsplit=maxcount) from index i on: whitespace-delimited
\* words, and after maxcount words the rest of the string, its leading
\* whitespace skipped and its trailing whitespace kept.
RECURSIVE SplitWhitespace(_, _, _)
SplitWhitespace(s, i, maxcount) ==
  LET j == SkipSpace(s, i)
  IN  IF j > Len(s) THEN <<>>
      ELSE IF maxcount = 0 THEN <<SubSeq(s, j, Len(s))>>
      ELSE LET k == SkipWord(s, j)
           IN  <<SubSeq(s, j, k - 1)>> \o SplitWhitespace(s, k, maxcount - 1)

\* bytes.split(maxsplit=maxsplit)
split(s, maxsplit) == SplitWhitespace(s, 1, maxsplit)

\* (mutant: the separator is kept at the end of the part before it)
partition_keeps_sep(s, sep) ==
  LET hits == {j \in 1..Len(s) : s[j] = sep}
  IN  IF hits = {} THEN <<s, <<>>, <<>>>>
      ELSE LET j == CHOOSE h \in hits : \A k \in hits : h <= k
           IN  <<SubSeq(s, 1, j), <<sep>>, SubSeq(s, j + 1, Len(s))>>

\* bytes.partition(sep) for a one-byte separator: <<before, sep, after>> at
\* the first occurrence, <<s, b'', b''>> when there is none.
partition(s, sep) ==
  LET hits == {j \in 1..Len(s) : s[j] = sep}
  IN  IF hits = {} THEN <<s, <<>>, <<>>>>
      ELSE LET j == CHOOSE h \in hits : \A k \in hits : h <= k
           IN  <<SubSeq(s, 1, j - 1), <<sep>>, SubSeq(s, j + 1, Len(s))>>

\* bytes.decode(): UTF-8; a lone byte >= 0x80 raises UnicodeDecodeError
decode(s) ==
  IF \E j \in 1..Len(s) : s[j] \in NONASCII
    THEN [ok |-> FALSE, text |-> <<>>]
    ELSE [ok |-> TRUE, text |-> s]

RECURSIVE DecimalValue(_)
DecimalValue(ds) ==
  IF ds = <<>> THEN 0
  ELSE 10 * DecimalValue(SubSeq(ds, 1, Len(ds) - 1)) + DigitVal(ds[Len(ds)])

\* int(text): an optional sign, then digits that single underscores may
\* separate; anything else raises ValueError
int(text) ==
  LET signed == text # <<>> /\ Head(text) \in {"+", "-"}
      body   == IF signed THEN Tail(text) ELSE text
      wellformed ==
        /\ body # <<>>
        /\ \A j \in 1..Len(body) : body[j] \in DIGITS \cup {"_"}
        /\ body[1] \in DIGITS /\ body[Len(body)] \in DIGITS
        /\ \A j \in 1..(Len(body) - 1) : ~(body[j] = "_" /\ body[j + 1] = "_")
      digits == SelectSeq(body, LAMBDA ch : ch \in DIGITS)
      value  == DecimalValue(digits)
  IN  IF ~wellformed THEN [ok |-> FALSE, value |-> 0]
      ELSE [ok |-> TRUE,
            value |-> IF signed /\ Head(text) = "-" THEN 0 - value ELSE value]

(***************************************************************************)
(* process_as_http_connect_request, after its receive_some: the result of  *)
(* lines 79-92 on the bytes read.  err names the statement that raised.    *)
(***************************************************************************)
ParseError(kind) == [ok |-> FALSE, err |-> kind, host |-> <<>>, port |-> 0]

process_as_http_connect_request(bytes_read) ==
  IF ~endswith(bytes_read, <<"\r", "\n", "\r", "\n">>)
    THEN ParseError("did_not_fit")
  ELSE
  LET tokens == split(bytes_read, 2) IN
  IF Len(tokens) # 3 THEN ParseError("expected_method_authority")
  ELSE
  LET method    == tokens[1]
      authority == tokens[2]
  IN
  IF method # <<"C","O","N","N","E","C","T">>
    THEN ParseError("unsupported_method")
  ELSE
  LET parts    == partition(authority, ":")
      desthost == parts[1]
      colon    == parts[2]
      destport == parts[3]
  IN
  IF colon = <<>> \/ destport = <<>> THEN ParseError("expected_port")
  ELSE IF ~decode(destport).ok THEN ParseError("UnicodeDecodeError")
  ELSE IF ~int(decode(destport).text).ok THEN ParseError("ValueError")
  ELSE IF int(decode(destport).text).value \notin OK_CONNECT_PORTS
    THEN ParseError("forbidden_port")
  ELSE IF ~decode(desthost).ok THEN ParseError("UnicodeDecodeError")
  ELSE [ok |-> TRUE, err |-> "", host |-> decode(desthost).text,
        port |-> int(decode(destport).text).value]

(***************************************************************************)
(* Inputs of the model: what the peers send.                               *)
(***************************************************************************)
Conns == {1, 2}
\* '->' is the pipe reading the client stream, '<-' the one reading the
\* destination stream (the directions log() prints)
Dirs == {"->", "<-"}
Other(d) == IF d = "->" THEN "<-" ELSE "->"

TERMINATOR == <<"\r", "\n", "\r", "\n">>
REQ_OK      == <<"C","O","N","N","E","C","T"," ","h",":","4","4","3"," ","H">> \o TERMINATOR
REQ_OK_ALT  == <<"C","O","N","N","E","C","T"," ","h",":","8","4","4","3"," ","H">> \o TERMINATOR
REQ_GET     == <<"G","E","T"," ","/"," ","H">> \o TERMINATOR
REQ_PORT80  == <<"C","O","N","N","E","C","T"," ","h",":","8","0"," ","H">> \o TERMINATOR
REQ_NOPORT  == <<"C","O","N","N","E","C","T"," ","h"," ","H">> \o TERMINATOR
REQ_BADPORT == <<"C","O","N","N","E","C","T"," ","h",":","4","x"," ","H">> \o TERMINATOR
\* a valid request for another host
REQ_OTHER   == <<"C","O","N","N","E","C","T"," ","g",":","4","4","3"," ","H">> \o TERMINATOR

GoodRequests == {REQ_OK, REQ_OK_ALT}
BadRequests  == {REQ_GET, REQ_PORT80, REQ_NOPORT, REQ_BADPORT}

\* the payload bytes of each peer, all distinct
CLIENT_DATA == <<"a", "b", "c", "d", "e", "f">>
DEST_DATA   == <<"u", "v", "w", "x", "y", "z">>

\* what a client sends: nothing, or a request and then up to n payload bytes
ClientInputs(requests, n) ==
  {<<>>} \cup {r \o SubSeq(CLIENT_DATA, 1, k) : r \in requests, k \in 0..n}
\* what the destination of a client sending input sends: up to n payload
\* bytes (nothing when the input holds no request that leads to a connect)
DestInputs(input, n) ==
  IF \E r \in GoodRequests : IsPrefix(r, input)
    THEN {SubSeq(DEST_DATA, 1, k) : k \in 0..n}
    ELSE {<<>>}

(***************************************************************************)
(* Requests the parser is run on (SpecParse): every combination of a       *)
(* method, an authority and the rest of the head, and some other inputs.   *)
(***************************************************************************)
CONNECT == <<"C","O","N","N","E","C","T">>

DigitChar(d) ==
  CASE d = 0 -> "0" [] d = 1 -> "1" [] d = 2 -> "2" [] d = 3 -> "3"
    [] d = 4 -> "4" [] d = 5 -> "5" [] d = 6 -> "6" [] d = 7 -> "7"
    [] d = 8 -> "8" [] d = 9 -> "9"

\* the decimal text of a natural number, as a client writes a port
RECURSIVE str(_)
str(n) == IF n < 10 THEN <<DigitChar(n)>> ELSE str(n \div 10) \o <<DigitChar(n % 10)>>

Methods ==
  {CONNECT, <<"G","E","T">>, <<"c","o","n","n","e","c","t">>,
   <<"C","O","N","N","E","C","T","S">>}

Hosts == {<<"h">>, <<"e","x",".","c","o">>}

\* port texts: the allowed ports, a forbidden one, and texts that are no
\* plain decimal numerals
PortTexts ==
  {str(n) : n \in OK_CONNECT_PORTS \cup {80}} \cup
  {<<"0","4","4","3">>, <<"+","4","4","3">>, <<"-","4","4","3">>,
   <<"4","_","4","_","3">>, <<"4","x">>, <<"4","4","3",":","1">>,
   <<"4","\\xff">>, <<>>}

Authorities ==
  {h \o <<":">> \o t : h \in Hosts, t \in PortTexts} \cup Hosts

\* the rest of the head: the version token, with or without a header line
Rests ==
  {<<"H">>, <<"H","T","T","P","/","1",".","1">>,
   <<"H","\r","\n","A",":"," ","g",":","8","0">>}

RequestOf(method, authority, rest) ==
  method \o <<" ">> \o authority \o <<" ">> \o rest \o TERMINATOR

ParseInputs ==
  {RequestOf(m, a, r) : m \in Methods, a \in Authorities, r \in Rests} \cup
  {<<>>,
   \* a request line whose terminator has not been sent
   <<"C","O","N","N","E","C","T"," ","h",":","4","4","3"," ","H","\r","\n">>,
   \* a request and, with it, payload that ends like a head
   REQ_OK \o <<"a","b">> \o TERMINATOR}

\* n payload bytes of the client
LongData(n) == [i \in 1..n |-> CLIENT_DATA[((i - 1) % Len(CLIENT_DATA)) + 1]]

\* what the client sends when BUFMAXLEN is max_bytes: inputs that fit and
\* inputs that do not
SmallInputs(max_bytes) ==
  {<<>>, REQ_OK,
   \* a request, and more payload than one read returns
   REQ_OK \o LongData(max_bytes + 1),
   \* a request line whose terminator never comes
   <<"C","O","N","N","E","C","T"," ","h",":","4","4","3"," ","H","\r","\n">>,
   \* more bytes than the budget, none of them a terminator
   LongData(max_bytes + 2),
   \* a valid request whose head ends beyond the budget
   RequestOf(CONNECT, <<"h",":","4","4","3">>,
             <<"H","\r","\n">> \o LongData(max_bytes))}

\* no '\r\n\r\n' ends within the first budget bytes of input
NoTerminatorWithin(input, budget) ==
  ~\E j \in Len(TERMINATOR)..Min(budget, Len(input)) :
      SubSeq(input, j - Len(TERMINATOR) + 1, j) = TERMINATOR

\* the number of colons of an authority, and what follows its first colon
Colons(a) == Cardinality({j \in 1..Len(a) : a[j] = ":"})
AfterColon(a) ==
  LET hits == {j \in 1..Len(a) : a[j] = ":"}
  IN  IF hits = {} THEN <<>>
      ELSE SubSeq(a, (CHOOSE h \in hits : \A k \in hits : h <= k) + 1, Len(a))

\* a base-10 integer: an optional sign and one or more decimal digits
IsBase10Integer(t) ==
  LET body == IF t # <<>> /\ Head(t) \in {"+", "-"} THEN Tail(t) ELSE t
  IN  body # <<>> /\ \A j \in 1..Len(body) : body[j] \in DIGITS
Base10Value(t) ==
  IF Head(t) = "-" THEN 0 - DecimalValue(Tail(t))
  ELSE IF Head(t) = "+" THEN DecimalValue(Tail(t)) ELSE DecimalValue(t)

(***************************************************************************)
(* State.                                                                  *)
(***************************************************************************)
VARIABLES
  listener,   \* serve_tcp: "serving", or "crashed" once a handler raised into it
  nextid,     \* the next value of http_proxy's _connidgen
  hpc,        \* where each http_proxy task is
  connid,     \* client_stream.id (0: not assigned)
  outcome,    \* how the handler left each phase it has left
  cinput,     \* everything the client sends on the connection
  dinput,     \* everything the destination sends once connected
  cin,        \* client stream: bytes sent and not yet received by the proxy
  din,        \* destination stream: the same
  cout,       \* bytes the proxy wrote to the client stream
  dout,       \* bytes the proxy wrote to the destination stream
  nparsed,    \* bytes process_as_http_connect_request received
  pres,       \* its result
  nconnect,   \* calls of open_tcp_stream
  dopened,    \* destination streams opened
  cclosed,    \* aclose() calls on the client stream
  dclosed,    \* aclose() calls on the destination stream
  ppc,        \* where each pipe task is
  chunk,      \* the chunk a pipe has read and not yet written
  cancelled,  \* the nursery's cancel scope: "no", "nursery" (a child
              \* raised), "outer" (the listener's nursery was cancelled)
  pending,    \* the exception in flight while the handler unwinds
  bufmaxlen,  \* the value of BUFMAXLEN, the default of every bufmaxlen parameter
  ctx,        \* each task's context: its values of the three ContextVars
  logs        \* the events log() has printed

vars == <<listener, nextid, hpc, connid, outcome, cinput, dinput, cin, din,
          cout, dout, nparsed, pres, nconnect, dopened, cclosed, dclosed,
          ppc, chunk, cancelled, pending, bufmaxlen, ctx, logs>>

NoResult == [ok |-> FALSE, err |-> "none", host |-> <<>>, port |-> 0]

PipeLive == {"recv", "send"}
PipeEnded == {"finished", "failed", "cancelled"}

\* the tasks of a connection: its http_proxy task and its two pipe tasks
Tasks == {"http_proxy"} \cup Dirs

\* stream objects, with the attributes lines 34 and 63-64 set on them
NoStream == [kind |-> "none", conn |-> 0, id |-> 0, host |-> <<>>]
ClientStream(c, id) == [kind |-> "client", conn |-> c, id |-> id, host |-> <<>>]
DestStream(c, host) == [kind |-> "dest", conn |-> c, id |-> 0, host |-> host]

\* a context in which none of the ContextVars of lines 28-30 is set
NoContext ==
  [client_stream |-> NoStream, dest_stream |-> NoStream, pipe_from |-> NoStream]

\* what log() prints in front of msg in the given context (lines 111-123):
\* the connection id if a client stream is set, and then a direction and the
\* destination host if a destination stream is set
log(context, msg) ==
  LET client_stream == context.client_stream
      dest_stream == context.dest_stream
      pipe_from == context.pipe_from
      tagged == client_stream # NoStream /\ dest_stream # NoStream
  IN  [msg |-> msg,
       id |-> IF client_stream # NoStream THEN client_stream.id ELSE 0,
       direction |-> IF ~tagged THEN ""
                     ELSE IF pipe_from = NoStream THEN "<>"
                     ELSE IF pipe_from = client_stream THEN "->" ELSE "<-",
       host |-> IF tagged THEN dest_stream.host ELSE <<>>]

\* task t of connection c calls log(msg) in the given context; dest_known
\* tells whether the call comes after open_tcp_stream returned
Emit(c, t, dest_known, context, msg) ==
  logs' = logs \cup {[conn |-> c, task |-> t, dest_known |-> dest_known,
                      line |-> log(context, msg)]}

\* (mutant: the pipe's source is kept in one variable shared by all tasks,
\* which holds what the pipe started last stored in it)
PipeContextShared(c, d) ==
  [ctx[c]["http_proxy"] EXCEPT !.pipe_from = ctx[c]["http_proxy"].dest_stream]

\* the context of the pipe task of direction d: a copy of the context of the
\* task that started it (lines 40-41), in which line 104 sets CV_PIPE_FROM
PipeContext(c, d) ==
  [ctx[c]["http_proxy"] EXCEPT
     !.pipe_from = IF d = "->" THEN ctx[c]["http_proxy"].client_stream
                   ELSE ctx[c]["http_proxy"].dest_stream]

\* the state after start_server: no connection accepted yet
InitState(arriving) ==
  /\ listener = "serving"
  /\ nextid = 1
  /\ hpc = [c \in Conns |-> IF c \in arriving THEN "idle" ELSE "absent"]
  /\ connid = [c \in Conns |-> 0]
  /\ outcome = [c \in Conns |-> "none"]
  /\ cin = cinput
  /\ din = [c \in Conns |-> <<>>]
  /\ cout = [c \in Conns |-> <<>>]
  /\ dout = [c \in Conns |-> <<>>]
  /\ nparsed = [c \in Conns |-> 0]
  /\ pres = [c \in Conns |-> NoResult]
  /\ nconnect = [c \in Conns |-> 0]
  /\ dopened = [c \in Conns |-> 0]
  /\ cclosed = [c \in Conns |-> 0]
  /\ dclosed = [c \in Conns |-> 0]
  /\ ppc = [c \in Conns |-> [d \in Dirs |-> "none"]]
  /\ chunk = [c \in Conns |-> [d \in Dirs |-> <<>>]]
  /\ cancelled = [c \in Conns |-> "no"]
  /\ pending = [c \in Conns |-> "none"]
  /\ ctx = [c \in Conns |-> [t \in Tasks |-> NoContext]]
  /\ logs = {}

InitWith(arriving, requests, n) ==
  \* requests[c], n[c]: the requests the client of connection c may send, and
  \* the longest payload it and its destination send
  /\ cinput \in [Conns -> UNION {ClientInputs(requests[c], n[c]) : c \in Conns}]
  /\ \A c \in Conns : cinput[c] \in ClientInputs(requests[c], n[c])
  /\ dinput \in [Conns -> UNION {DestInputs(REQ_OK, n[c]) : c \in Conns}]
  /\ \A c \in Conns : dinput[c] \in DestInputs(cinput[c], n[c])
  /\ bufmaxlen = BUFMAXLEN
  /\ InitState(arriving)

\* one connection: any request, payloads of up to MaxData bytes
Init ==
  InitWith({1}, [c \in Conns |-> IF c = 1 THEN GoodRequests \cup BadRequests ELSE {}],
           [c \in Conns |-> IF c = 1 THEN MaxData ELSE 0])
\* two connections to different hosts: one with payloads of up to
\* MaxDataMulti bytes, one whose peers send no payload
InitMulti ==
  InitWith(Conns, [c \in Conns |-> {IF c = 1 THEN REQ_OK ELSE REQ_OTHER, REQ_GET}],
           [c \in Conns |-> IF c = 1 THEN MaxDataMulti ELSE 0])

\* one connection whose client sends one of the parser's inputs
InitParse ==
  /\ cinput \in [Conns -> ParseInputs]
  /\ cinput[2] = <<>>
  /\ dinput = [c \in Conns |-> <<>>]
  /\ bufmaxlen = BUFMAXLEN
  /\ InitState({1})

\* one connection of a proxy whose BUFMAXLEN is SmallBufMaxLen
InitSmall ==
  /\ cinput \in [Conns -> SmallInputs(SmallBufMaxLen)]
  /\ cinput[2] = <<>>
  /\ dinput \in [Conns -> DestInputs(REQ_OK, 1)]
  /\ dinput[1] \in DestInputs(cinput[1], 1)
  /\ dinput[2] = <<>>
  /\ bufmaxlen = SmallBufMaxLen
  /\ InitState({1})

(***************************************************************************)
(* Shared pieces of the handler's steps.                                   *)
(***************************************************************************)
\* (mutant: the client stream is left open)
CloseClientSkipped(c) ==
  /\ cclosed' = cclosed
  /\ cin' = cin

\* client_stream.aclose(), on leaving 'async with client_stream' (line 36):
\* the socket is closed and what it had buffered is gone
CloseClient(c) ==
  /\ cclosed' = [cclosed EXCEPT ![c] = @ + 1]
  /\ cin' = [cin EXCEPT ![c] = <<>>]

\* dest_stream.aclose(), on leaving 'async with dest_stream' (line 39)
CloseDest(c) ==
  /\ dclosed' = [dclosed EXCEPT ![c] = @ + 1]
  /\ din' = [din EXCEPT ![c] = <<>>]

\* 'except Exception' (line 42) around tunnel() and the nursery: does it
\* catch the exception in flight?  A single error is an Exception.  Errors
\* of both pipes leave the nursery as one group: trio.MultiError, a
\* BaseException, in the trio releases of the program's time, and an
\* ExceptionGroup, an Exception, in later ones.  Cancelled is a
\* BaseException.
ExceptException(exc) ==
  CASE exc = "error"      -> {TRUE}
    [] exc = "multierror" -> {TRUE, FALSE}
    [] exc = "cancelled"  -> {FALSE}

\* the exception the nursery block of line 39 ends with
NurseryOutcome(c) ==
  LET failed == {d \in Dirs : ppc[c][d] = "failed"}
  IN  IF cancelled[c] = "outer" THEN "cancelled"
      ELSE IF Cardinality(failed) = 0 THEN "none"
      ELSE IF Cardinality(failed) = 1 THEN "error"
      ELSE "multierror"

\* (mutant: max_bytes is not honoured)
receive_some_unbounded(buf, max_bytes) ==
  IF buf = <<>> THEN {0} ELSE 1..Len(buf)

\* the lengths receive_some(max_bytes) may return on a stream holding buf:
\* any part of what has arrived, and 0 only at end-of-stream
receive_some(buf, max_bytes) ==
  IF buf = <<>> THEN {0} ELSE 1..Min(max_bytes, Len(buf))

\* the lengths a send_all(data) that fails or is cancelled has written
PartialWrites(data) == 0..Min(Len(data) - 1, MaxPartial)

(***************************************************************************)
(* http_proxy, up to the relay.                                            *)
(***************************************************************************)
\* (mutant: the id generator is not advanced)
AcceptSameId(c) ==
  /\ listener = "serving"
  /\ hpc[c] = "idle"
  /\ connid' = [connid EXCEPT ![c] = nextid]
  /\ hpc' = [hpc EXCEPT ![c] = "parse"]
  /\ ctx' = [ctx EXCEPT ![c]["http_proxy"].client_stream = ClientStream(c, nextid)]
  /\ Emit(c, "http_proxy", FALSE, ctx'[c]["http_proxy"], "Reading")
  /\ UNCHANGED <<listener, nextid, outcome, cinput, dinput, cin, din, cout,
                 dout, nparsed, pres, nconnect, dopened, cclosed, dclosed,
                 ppc, chunk, cancelled, pending, bufmaxlen>>

\* serve_tcp starts http_proxy for an accepted connection: lines 34-36, then
\* tunnel() and process_as_http_connect_request up to its receive_some
Accept(c) ==
  /\ listener = "serving"
  /\ hpc[c] = "idle"
  /\ connid' = [connid EXCEPT ![c] = nextid]
  /\ nextid' = nextid + 1
  /\ hpc' = [hpc EXCEPT ![c] = "parse"]
  /\ UNCHANGED <<listener, outcome, cinput, dinput, cin, din, cout, dout,
                 nparsed, pres, nconnect, dopened, cclosed, dclosed, ppc,
                 chunk, cancelled, pending>>
  /\ ctx' = [ctx EXCEPT ![c]["http_proxy"].client_stream = ClientStream(c, nextid)]
  /\ Emit(c, "http_proxy", FALSE, ctx'[c]["http_proxy"], "Reading")
  /\ UNCHANGED bufmaxlen

\* (mutant: the parser looks at the bytes without taking them off the stream)
ParseRequestPeeks(c) ==
  /\ listener = "serving"
  /\ hpc[c] = "parse"
  /\ \E k \in receive_some(cin[c], bufmaxlen) :
       LET bytes_read == SubSeq(cin[c], 1, k)
           result == process_as_http_connect_request(bytes_read)
       IN  /\ nparsed' = [nparsed EXCEPT ![c] = k]
           /\ pres' = [pres EXCEPT ![c] = result]
           /\ IF result.ok
                THEN /\ nconnect' = [nconnect EXCEPT ![c] = @ + 1]
                     /\ hpc' = [hpc EXCEPT ![c] = "connect"]
                     /\ Emit(c, "http_proxy", FALSE, ctx[c]["http_proxy"],
                             "Got CONNECT request")
                     /\ UNCHANGED <<outcome, cclosed, cin>>
                ELSE /\ CloseClient(c)
                     /\ Emit(c, "http_proxy", FALSE, ctx[c]["http_proxy"],
                             "traceback")
                     /\ hpc' = [hpc EXCEPT ![c] = "done"]
                     /\ outcome' = [outcome EXCEPT ![c] = "parse_failure"]
                     /\ UNCHANGED nconnect
  /\ UNCHANGED <<listener, nextid, connid, cinput, dinput, din, cout, dout,
                 dopened, dclosed, ppc, chunk, cancelled, pending, bufmaxlen,
                 ctx>>

\* receive_some (line 78) returns k bytes; lines 79-92 parse them.  A valid
\* request goes on to open_tcp_stream (line 62); an invalid one raises, is
\* caught and logged at lines 42-43, and the client stream is closed.
ParseRequest(c) ==
  /\ listener = "serving"
  /\ hpc[c] = "parse"
  /\ \E k \in receive_some(cin[c], bufmaxlen) :
       LET bytes_read == SubSeq(cin[c], 1, k)
           result == process_as_http_connect_request(bytes_read)
       IN  /\ nparsed' = [nparsed EXCEPT ![c] = k]
           /\ pres' = [pres EXCEPT ![c] = result]
           /\ IF result.ok
                THEN /\ cin' = [cin EXCEPT ![c] = SubSeq(@, k + 1, Len(@))]
                     /\ nconnect' = [nconnect EXCEPT ![c] = @ + 1]
                     /\ hpc' = [hpc EXCEPT ![c] = "connect"]
                     /\ Emit(c, "http_proxy", FALSE, ctx[c]["http_proxy"],
                             "Got CONNECT request")
                     /\ UNCHANGED <<outcome, cclosed>>
                ELSE /\ CloseClient(c)
                     /\ Emit(c, "http_proxy", FALSE, ctx[c]["http_proxy"],
                             "traceback")
                     /\ hpc' = [hpc EXCEPT ![c] = "done"]
                     /\ outcome' = [outcome EXCEPT ![c] = "parse_failure"]
                     /\ UNCHANGED nconnect
  /\ UNCHANGED <<listener, nextid, connid, cinput, dinput, din, cout, dout,
                 dopened, dclosed, ppc, chunk, cancelled, pending>>
  /\ UNCHANGED <<bufmaxlen, ctx>>

\* receive_some (line 78) raises: caught at line 42, client stream closed
ParseReceiveFails(c) ==
  /\ listener = "serving"
  /\ hpc[c] = "parse"
  /\ CloseClient(c)
  /\ hpc' = [hpc EXCEPT ![c] = "done"]
  /\ outcome' = [outcome EXCEPT ![c] = "parse_failure"]
  /\ pres' = [pres EXCEPT ![c] = ParseError("receive_failed")]
  /\ UNCHANGED <<listener, nextid, connid, cinput, dinput, din, cout, dout,
                 nparsed, nconnect, dopened, dclosed, ppc, chunk, cancelled,
                 pending>>
  /\ Emit(c, "http_proxy", FALSE, ctx[c]["http_proxy"], "traceback")
  /\ UNCHANGED <<bufmaxlen, ctx>>

\* (mutant: the pipes are started as soon as the destination is connected,
\* before the 200 response is written)
ConnectSucceedsStartsRelay(c) ==
  /\ listener = "serving"
  /\ hpc[c] = "connect"
  /\ dopened' = [dopened EXCEPT ![c] = @ + 1]
  /\ din' = [din EXCEPT ![c] = dinput[c]]
  /\ ppc' = [ppc EXCEPT ![c] = [d \in Dirs |-> "recv"]]
  /\ hpc' = [hpc EXCEPT ![c] = "relay"]
  /\ ctx' = [ctx EXCEPT ![c] = [t \in Tasks |->
              [@[t] EXCEPT !.dest_stream = DestStream(c, pres[c].host)]]]
  /\ Emit(c, "http_proxy", TRUE, ctx'[c]["http_proxy"], "Connected")
  /\ UNCHANGED <<listener, nextid, connid, outcome, cinput, dinput, cin, cout,
                 dout, nparsed, pres, nconnect, cclosed, dclosed, chunk,
                 cancelled, pending, bufmaxlen>>

\* open_tcp_stream (line 62) succeeds: lines 63-66, then send_all of the 200
ConnectSucceeds(c) ==
  /\ listener = "serving"
  /\ hpc[c] = "connect"
  /\ dopened' = [dopened EXCEPT ![c] = @ + 1]
  /\ din' = [din EXCEPT ![c] = dinput[c]]
  /\ hpc' = [hpc EXCEPT ![c] = "send200"]
  /\ UNCHANGED <<listener, nextid, connid, outcome, cinput, dinput, cin, cout,
                 dout, nparsed, pres, nconnect, cclosed, dclosed, ppc, chunk,
                 cancelled, pending>>
  /\ ctx' = [ctx EXCEPT ![c]["http_proxy"].dest_stream = DestStream(c, pres[c].host)]
  /\ Emit(c, "http_proxy", TRUE, ctx'[c]["http_proxy"], "Connected")
  /\ UNCHANGED bufmaxlen

\* (mutant: an error response is written to the client on a failed connect)
ConnectFailsWith502(c) ==
  /\ listener = "serving"
  /\ hpc[c] = "connect"
  /\ cout' = [cout EXCEPT ![c] = @ \o <<"H","T","T","P","/","1",".","1"," ","5","0","2">>]
  /\ CloseClient(c)
  /\ hpc' = [hpc EXCEPT ![c] = "done"]
  /\ outcome' = [outcome EXCEPT ![c] = "connect_failure"]
  /\ UNCHANGED <<listener, nextid, connid, cinput, dinput, din, dout,
                 nparsed, pres, nconnect, dopened, dclosed, ppc, chunk,
                 cancelled, pending>>
  /\ Emit(c, "http_proxy", FALSE, ctx[c]["http_proxy"], "traceback")
  /\ UNCHANGED <<bufmaxlen, ctx>>

\* open_tcp_stream (line 62) raises: caught at line 42, client stream closed
ConnectFails(c) ==
  /\ listener = "serving"
  /\ hpc[c] = "connect"
  /\ CloseClient(c)
  /\ hpc' = [hpc EXCEPT ![c] = "done"]
  /\ outcome' = [outcome EXCEPT ![c] = "connect_failure"]
  /\ UNCHANGED <<listener, nextid, connid, cinput, dinput, din, cout, dout,
                 nparsed, pres, nconnect, dopened, dclosed, ppc, chunk,
                 cancelled, pending>>
  /\ Emit(c, "http_proxy", FALSE, ctx[c]["http_proxy"], "traceback")
  /\ UNCHANGED <<bufmaxlen, ctx>>

\* send_all (line 67) completes: tunnel returns dest_stream, line 39 enters
\* 'async with dest_stream' and the nursery, lines 40-41 start both pipes,
\* each runs to its first receive_some (lines 104-105, 97)
Send200Succeeds(c) ==
  /\ listener = "serving"
  /\ hpc[c] = "send200"
  /\ cout' = [cout EXCEPT ![c] = @ \o RESPONSE_200]
  /\ ppc' = [ppc EXCEPT ![c] = [d \in Dirs |-> "recv"]]
  /\ hpc' = [hpc EXCEPT ![c] = "relay"]
  /\ UNCHANGED <<listener, nextid, connid, outcome, cinput, dinput, cin, din,
                 dout, nparsed, pres, nconnect, dopened, cclosed, dclosed,
                 chunk, cancelled, pending>>
  /\ ctx' = [ctx EXCEPT ![c] = [t \in Tasks |->
              IF t = "http_proxy" THEN ctx[c][t] ELSE PipeContext(c, t)]]
  /\ Emit(c, "http_proxy", TRUE, ctx[c]["http_proxy"], "Sent 200")
  /\ UNCHANGED bufmaxlen

\* send_all (line 67) raises after writing k bytes: tunnel raises before
\* line 39 is reached, so only 'async with client_stream' is left to unwind
Send200Fails(c) ==
  /\ listener = "serving"
  /\ hpc[c] = "send200"
  /\ \E k \in PartialWrites(RESPONSE_200) :
       cout' = [cout EXCEPT ![c] = @ \o SubSeq(RESPONSE_200, 1, k)]
  /\ CloseClient(c)
  /\ hpc' = [hpc EXCEPT ![c] = "done"]
  /\ outcome' = [outcome EXCEPT ![c] = "send200_failure"]
  /\ UNCHANGED <<listener, nextid, connid, cinput, dinput, din, dout,
                 nparsed, pres, nconnect, dopened, dclosed, ppc, chunk,
                 cancelled, pending>>
  /\ Emit(c, "http_proxy", TRUE, ctx[c]["http_proxy"], "traceback")
  /\ UNCHANGED <<bufmaxlen, ctx>>

(***************************************************************************)
(* pipe and read_all: one task per direction.                              *)
(*                                                                         *)
(* A pipe blocked in receive_some or send_all when its nursery is          *)
(* cancelled is woken with Cancelled; one whose operation had already      *)
(* failed when the cancellation came raises that error instead.  One       *)
(* whose operation had already succeeded runs on to its next await and     *)
(* gets Cancelled there, which is the run in which it took that step       *)
(* before the cancellation: the steps that succeed need no second copy.    *)
(***************************************************************************)
Source(c, d) == IF d = "->" THEN cin[c] ELSE din[c]

\* the source stream of direction d is left holding rest
Consume(c, d, rest) ==
  /\ cin' = IF d = "->" THEN [cin EXCEPT ![c] = rest] ELSE cin
  /\ din' = IF d = "<-" THEN [din EXCEPT ![c] = rest] ELSE din

\* (mutant: one send() instead of send_all: only the first byte is written)
WriteShort(c, d, data) ==
  /\ dout' = IF d = "->" THEN [dout EXCEPT ![c] = @ \o SubSeq(data, 1, Min(1, Len(data)))] ELSE dout
  /\ cout' = IF d = "<-" THEN [cout EXCEPT ![c] = @ \o SubSeq(data, 1, Min(1, Len(data)))] ELSE cout

\* data is written to the sink stream of direction d
Write(c, d, data) ==
  /\ dout' = IF d = "->" THEN [dout EXCEPT ![c] = @ \o data] ELSE dout
  /\ cout' = IF d = "<-" THEN [cout EXCEPT ![c] = @ \o data] ELSE cout

\* (mutant: a child's exception does not cancel its sibling)
ChildRaisedIgnored(c) == cancelled' = cancelled

\* a child task of the nursery raised: the nursery cancels its scope
ChildRaised(c) ==
  cancelled' = [cancelled EXCEPT ![c] = IF @ = "no" THEN "nursery" ELSE @]

\* (mutant: the next chunk is received while the previous one is being sent)
PipeReceivesAhead(c, d) ==
  /\ hpc[c] = "relay" /\ ppc[c][d] \in PipeLive /\ cancelled[c] = "no"
  /\ Source(c, d) # <<>>
  /\ \E k \in receive_some(Source(c, d), bufmaxlen) :
       /\ chunk' = [chunk EXCEPT ![c][d] = @ \o SubSeq(Source(c, d), 1, k)]
       /\ Consume(c, d, SubSeq(Source(c, d), k + 1, Len(Source(c, d))))
  /\ ppc' = [ppc EXCEPT ![c][d] = "send"]
  /\ UNCHANGED <<listener, nextid, hpc, connid, outcome, cinput, dinput,
                 cout, dout, nparsed, pres, nconnect, dopened, cclosed,
                 dclosed, cancelled, pending, bufmaxlen, ctx, logs>>

\* receive_some (line 97) returns a chunk: read_all yields it (line 100) and
\* pipe calls send_all (line 106)
PipeReceives(c, d) ==
  /\ hpc[c] = "relay" /\ ppc[c][d] = "recv" /\ cancelled[c] = "no"
  /\ Source(c, d) # <<>>
  /\ \E k \in receive_some(Source(c, d), bufmaxlen) :
       /\ chunk' = [chunk EXCEPT ![c][d] = SubSeq(Source(c, d), 1, k)]
       /\ Consume(c, d, SubSeq(Source(c, d), k + 1, Len(Source(c, d))))
  /\ ppc' = [ppc EXCEPT ![c][d] = "send"]
  /\ UNCHANGED <<listener, nextid, hpc, connid, outcome, cinput, dinput,
                 cout, dout, nparsed, pres, nconnect, dopened, cclosed,
                 dclosed, cancelled, pending>>
  /\ UNCHANGED <<bufmaxlen, ctx, logs>>

\* (mutant: a pipe that reaches end-of-stream cancels the nursery)
PipeEndOfStreamCancels(c, d) ==
  /\ hpc[c] = "relay" /\ ppc[c][d] = "recv" /\ cancelled[c] = "no"
  /\ 0 \in receive_some(Source(c, d), bufmaxlen)
  /\ ppc' = [ppc EXCEPT ![c][d] = "finished"]
  /\ cancelled' = [cancelled EXCEPT ![c] = "nursery"]
  /\ Emit(c, d, TRUE, ctx[c][d], "Pipe finished")
  /\ UNCHANGED <<listener, nextid, hpc, connid, outcome, cinput, dinput, cin,
                 din, cout, dout, nparsed, pres, nconnect, dopened, cclosed,
                 dclosed, chunk, pending, bufmaxlen, ctx>>

\* receive_some (line 97) returns b'': read_all breaks (lines 98-99), pipe
\* logs 'Pipe finished' (line 108) and returns
PipeEndOfStream(c, d) ==
  /\ hpc[c] = "relay" /\ ppc[c][d] = "recv" /\ cancelled[c] = "no"
  /\ 0 \in receive_some(Source(c, d), bufmaxlen)
  /\ ppc' = [ppc EXCEPT ![c][d] = "finished"]
  /\ UNCHANGED <<listener, nextid, hpc, connid, outcome, cinput, dinput, cin,
                 din, cout, dout, nparsed, pres, nconnect, dopened, cclosed,
                 dclosed, chunk, cancelled, pending>>
  /\ Emit(c, d, TRUE, ctx[c][d], "Pipe finished")
  /\ UNCHANGED <<bufmaxlen, ctx>>

\* receive_some (line 97) raises: the exception leaves pipe
PipeReceiveFails(c, d) ==
  /\ hpc[c] = "relay" /\ ppc[c][d] = "recv"
  /\ ppc' = [ppc EXCEPT ![c][d] = "failed"]
  /\ ChildRaised(c)
  /\ UNCHANGED <<listener, nextid, hpc, connid, outcome, cinput, dinput, cin,
                 din, cout, dout, nparsed, pres, nconnect, dopened, cclosed,
                 dclosed, chunk, pending>>
  /\ UNCHANGED <<bufmaxlen, ctx, logs>>

\* send_all (line 106) completes: 'Forwarded' is logged (line 107) and
\* read_all calls receive_some again (line 97)
PipeSends(c, d) ==
  /\ hpc[c] = "relay" /\ ppc[c][d] = "send" /\ cancelled[c] = "no"
  /\ Write(c, d, chunk[c][d])
  /\ chunk' = [chunk EXCEPT ![c][d] = <<>>]
  /\ ppc' = [ppc EXCEPT ![c][d] = "recv"]
  /\ UNCHANGED <<listener, nextid, hpc, connid, outcome, cinput, dinput, cin,
                 din, nparsed, pres, nconnect, dopened, cclosed, dclosed,
                 cancelled, pending>>
  /\ Emit(c, d, TRUE, ctx[c][d], "Forwarded")
  /\ UNCHANGED <<bufmaxlen, ctx>>

\* send_all (line 106) raises after writing k bytes of the chunk
PipeSendFails(c, d) ==
  /\ hpc[c] = "relay" /\ ppc[c][d] = "send"
  /\ \E k \in PartialWrites(chunk[c][d]) :
       Write(c, d, SubSeq(chunk[c][d], 1, k))
  /\ chunk' = [chunk EXCEPT ![c][d] = <<>>]
  /\ ppc' = [ppc EXCEPT ![c][d] = "failed"]
  /\ ChildRaised(c)
  /\ UNCHANGED <<listener, nextid, hpc, connid, outcome, cinput, dinput, cin,
                 din, nparsed, pres, nconnect, dopened, cclosed, dclosed,
                 pending>>
  /\ UNCHANGED <<bufmaxlen, ctx, logs>>

\* the nursery's scope is cancelled: the pipe's receive_some or send_all
\* raises Cancelled (a send_all after writing k bytes of its chunk)
PipeCancelled(c, d) ==
  /\ hpc[c] = "relay" /\ ppc[c][d] \in PipeLive /\ cancelled[c] # "no"
  /\ \E k \in (IF ppc[c][d] = "send" THEN PartialWrites(chunk[c][d]) ELSE {0}) :
       Write(c, d, SubSeq(chunk[c][d], 1, k))
  /\ chunk' = [chunk EXCEPT ![c][d] = <<>>]
  /\ ppc' = [ppc EXCEPT ![c][d] = "cancelled"]
  /\ UNCHANGED <<listener, nextid, hpc, connid, outcome, cinput, dinput, cin,
                 din, nparsed, pres, nconnect, dopened, cclosed, dclosed,
                 cancelled, pending>>
  /\ UNCHANGED <<bufmaxlen, ctx, logs>>

(***************************************************************************)
(* http_proxy, from the end of the relay.                                  *)
(***************************************************************************)
\* (mutant: the nursery block ends with the first pipe that ends)
AnyChildDone(c) == \E d \in Dirs : ppc[c][d] \in PipeEnded

\* (mutant: the nursery block ends only when both pipes finished cleanly)
ChildrenFinished(c) == \A d \in Dirs : ppc[c][d] = "finished"

\* both pipes have ended
ChildrenDone(c) == \A d \in Dirs : ppc[c][d] \in PipeEnded

\* the nursery block (line 39) ends once its children are done; leaving
\* 'async with dest_stream' closes the destination stream
NurseryExits(c) ==
  /\ hpc[c] = "relay"
  /\ ChildrenDone(c)
  /\ pending' = [pending EXCEPT ![c] = NurseryOutcome(c)]
  /\ CloseDest(c)
  /\ hpc' = [hpc EXCEPT ![c] = "closing"]
  /\ UNCHANGED <<listener, nextid, connid, outcome, cinput, dinput, cin, cout,
                 dout, nparsed, pres, nconnect, dopened, cclosed, ppc, chunk,
                 cancelled>>
  /\ UNCHANGED <<bufmaxlen, ctx, logs>>

\* lines 42-43 catch and log the exception in flight, if they catch it;
\* leaving 'async with client_stream' closes the client stream; http_proxy
\* returns, or raises into serve_tcp's nursery what was not caught
HandlerReturns(c) ==
  /\ hpc[c] = "closing"
  /\ CloseClient(c)
  /\ hpc' = [hpc EXCEPT ![c] = "done"]
  /\ pending' = [pending EXCEPT ![c] = "none"]
  /\ IF pending[c] = "none"
       THEN /\ outcome' = [outcome EXCEPT ![c] = "relay_completion"]
            /\ UNCHANGED <<listener, logs>>
       ELSE \E caught \in ExceptException(pending[c]) :
              IF caught
                THEN /\ outcome' = [outcome EXCEPT ![c] = "relay_error"]
                     /\ Emit(c, "http_proxy", TRUE, ctx[c]["http_proxy"],
                             "traceback")
                     /\ UNCHANGED listener
              ELSE IF pending[c] = "cancelled"
                THEN /\ outcome' = [outcome EXCEPT ![c] = "cancelled"]
                     /\ UNCHANGED <<listener, logs>>
              ELSE /\ outcome' = [outcome EXCEPT ![c] = "raised"]
                   /\ listener' = "crashed"
                   /\ UNCHANGED logs
  /\ UNCHANGED <<nextid, connid, cinput, dinput, din, cout, dout, nparsed,
                 pres, nconnect, dopened, dclosed, ppc, chunk, cancelled>>
  /\ UNCHANGED <<bufmaxlen, ctx>>

\* serve_tcp's nursery was cancelled by a handler that raised into it (line
\* 49): every other handler gets Cancelled at the await it is blocked in
ListenerCancels(c) ==
  /\ listener = "crashed"
  /\ \/ /\ hpc[c] \in {"parse", "connect"}
        /\ CloseClient(c)
        /\ hpc' = [hpc EXCEPT ![c] = "done"]
        /\ outcome' = [outcome EXCEPT ![c] = "cancelled"]
        /\ UNCHANGED <<cout, cancelled, pending>>
     \/ /\ hpc[c] = "send200"
        /\ \E k \in PartialWrites(RESPONSE_200) :
             cout' = [cout EXCEPT ![c] = @ \o SubSeq(RESPONSE_200, 1, k)]
        /\ CloseClient(c)
        /\ hpc' = [hpc EXCEPT ![c] = "done"]
        /\ outcome' = [outcome EXCEPT ![c] = "cancelled"]
        /\ UNCHANGED <<cancelled, pending>>
     \/ /\ hpc[c] = "relay" /\ cancelled[c] # "outer"
        /\ cancelled' = [cancelled EXCEPT ![c] = "outer"]
        /\ UNCHANGED <<hpc, outcome, cin, cout, cclosed, pending>>
     \/ /\ hpc[c] = "closing" /\ pending[c] # "cancelled"
        /\ pending' = [pending EXCEPT ![c] = "cancelled"]
        /\ UNCHANGED <<hpc, outcome, cin, cout, cclosed, cancelled>>
  /\ UNCHANGED <<listener, nextid, connid, cinput, dinput, din, dout, nparsed,
                 pres, nconnect, dopened, dclosed, ppc, chunk>>
  /\ UNCHANGED <<bufmaxlen, ctx, logs>>

(***************************************************************************)
(* Specifications.                                                         *)
(***************************************************************************)
Next ==
  \E c \in Conns :
    \/ Accept(c)
    \/ ParseRequest(c)
    \/ ParseReceiveFails(c)
    \/ ConnectSucceeds(c)
    \/ ConnectFails(c)
    \/ Send200Succeeds(c)
    \/ Send200Fails(c)
    \/ NurseryExits(c)
    \/ HandlerReturns(c)
    \/ \E d \in Dirs :
         \/ PipeReceives(c, d)
         \/ PipeEndOfStream(c, d)
         \/ PipeReceiveFails(c, d)
         \/ PipeSends(c, d)
         \/ PipeSendFails(c, d)
         \/ PipeCancelled(c, d)

NextMulti == Next \/ \E c \in Conns : ListenerCancels(c)

\* http_proxy up to the end of process_as_http_connect_request
NextParse ==
  \E c \in Conns :
    \/ Accept(c)
    \/ ParseRequest(c)
    \/ ParseReceiveFails(c)

\* the parser on its inputs
SpecParse == InitParse /\ [][NextParse]_vars

\* one connection of a proxy with a small BUFMAXLEN
SpecSmall == InitSmall /\ [][Next]_vars

\* one connection
Spec == Init /\ [][Next]_vars

\* one connection, every pending operation of whose tasks completes (with a
\* result, end-of-stream or an error) and every runnable task of which is
\* scheduled: some step of the program is taken as long as one is possible
SpecFair == Init /\ [][Next]_vars /\ WF_vars(Next)

\* two connections under one listener
SpecMulti == InitMulti /\ [][NextMulti]_vars

(***************************************************************************)
(* Properties.                                                             *)
(***************************************************************************)
\* what the client sends after the bytes the parser received
ClientSent(c) == SubSeq(cinput[c], nparsed[c] + 1, Len(cinput[c]))
\* what the proxy wrote to the client after the 200 response
Relayed(c) == SubSeq(cout[c], Len(RESPONSE_200) + 1, Len(cout[c]))

\* C1: once http_proxy has returned, a destination stream that was opened
\* has been closed exactly once, on every exit path (also when the write of
\* the 200 response failed).
C1_DestClosedOnce ==
  \A c \in Conns :
    (hpc[c] = "done" /\ dopened[c] > 0) => dclosed[c] = 1

\* C2: first exit wins: as soon as one pipe direction has ended, by
\* end-of-stream or by error, the other direction has ended too or its
\* cancellation has been requested.
C2_FirstExitWins ==
  \A c \in Conns : \A d \in Dirs :
    (hpc[c] = "relay" /\ ppc[c][d] \in {"finished", "failed"})
      => (ppc[c][Other(d)] \in PipeEnded \/ cancelled[c] # "no")

\* C3: the client stream is closed exactly once on every exit path: not at
\* all while http_proxy runs, and once when it has ended.
C3_ClientClosedOnce ==
  \A c \in Conns : cclosed[c] = IF hpc[c] = "done" THEN 1 ELSE 0

C3_Witness ==
  \E c \in Conns :
    /\ hpc[c] = "done" /\ cclosed[c] = 1
    /\ outcome[c] = "send200_failure"

\* C4: http_proxy is the fault boundary: no failure leaves it, the listener
\* keeps serving and no other handler is cancelled.
C4_FaultBoundary ==
  /\ listener = "serving"
  /\ \A c \in Conns : outcome[c] \notin {"raised", "cancelled"}

\* C5: once a pipe has failed, it stays failed (its chunk is not retried),
\* the nursery is cancelled, the sibling starts no further receive or send
\* (it ends, by Cancelled or by an error of its own), and when http_proxy
\* has ended both streams are closed.
C5_ErrorEndsTunnel ==
  [][\A c \in Conns :
       (\E f \in Dirs : ppc[c][f] = "failed") =>
         /\ cancelled[c] # "no"
         /\ \A d \in Dirs :
              /\ ppc[c][d] = "failed" => ppc'[c][d] = "failed"
              /\ ppc'[c][d] \in {ppc[c][d], "cancelled", "failed"}
         /\ hpc'[c] = "done" => (cclosed'[c] = 1 /\ dclosed'[c] = 1)]_vars

C5_Witness ==
  \E c \in Conns : \E d \in Dirs :
    /\ ppc[c][d] = "failed" /\ ppc[c][Other(d)] = "cancelled"
    /\ hpc[c] = "done" /\ cclosed[c] = 1 /\ dclosed[c] = 1

\* C6: pipes run only during the relay phase, and during the relay phase
\* (so while a pipe is in a receive or a send, and by no step of a pipe)
\* neither stream is closed.
C6_NoCloseWhilePiping ==
  \A c \in Conns :
    /\ (\E d \in Dirs : ppc[c][d] \in PipeLive) => hpc[c] = "relay"
    /\ hpc[c] = "relay" => (cclosed[c] = 0 /\ dclosed[c] = 0)

C6_Witness ==
  \E c \in Conns : \E d \in Dirs :
    /\ hpc[c] = "closing" /\ dclosed[c] = 1
    /\ ppc[c][d] = "failed" /\ ppc[c][Other(d)] = "cancelled"

\* C7: a valid CONNECT request within bufmaxlen is parsed successfully
\* however it is cut across reads.
C7_SplitRequestParsed ==
  \A c \in Conns :
    ( /\ cinput[c] \in GoodRequests
      /\ Len(cinput[c]) <= BUFMAXLEN
      /\ hpc[c] \notin {"absent", "idle", "parse"}
      /\ pres[c].err # "receive_failed" )
    => pres[c].ok

C9_OnlyThe200 ==
  \A c \in Conns :
    /\ outcome[c] \in {"parse_failure", "connect_failure"} => cout[c] = <<>>
    /\ dopened[c] = 0 => cout[c] = <<>>
    /\ IsPrefix(cout[c], RESPONSE_200 \o dinput[c])

C9_Witness ==
  \E c \in Conns :
    /\ hpc[c] = "done" /\ outcome[c] = "connect_failure"
    /\ nconnect[c] = 1 /\ cout[c] = <<>>

\* C10: in each direction what was written to the sink is a prefix of what
\* the source sent, and equals it when the pipe ended at end-of-stream.
C10_RelayKeepsBytes ==
  \A c \in Conns :
    /\ IsPrefix(dout[c], ClientSent(c))
    /\ ppc[c]["->"] = "finished" => dout[c] = ClientSent(c)
    /\ ppc[c]["<-"] # "none" =>
         /\ IsPrefix(RESPONSE_200, cout[c])
         /\ IsPrefix(Relayed(c), dinput[c])
    /\ ppc[c]["<-"] = "finished" => Relayed(c) = dinput[c]

C10_Witness ==
  \E c \in Conns :
    /\ ppc[c]["->"] = "finished" /\ ppc[c]["<-"] = "finished"
    /\ Len(dout[c]) >= 2 /\ dout[c] = ClientSent(c)
    /\ Len(Relayed(c)) >= 2 /\ Relayed(c) = dinput[c]

\* the connection's parser has run on the whole of what the client sent
ParsedWhole(c) ==
  /\ hpc[c] \notin {"absent", "idle", "parse"}
  /\ nparsed[c] = Len(cinput[c])
  /\ pres[c].err # "receive_failed"

\* C11: the parser returns no target for an invalid request: another
\* method than CONNECT fails with the wrong-method error, an authority
\* without exactly one ':' followed by a port fails, a port that is no
\* base-10 integer fails, and a port outside the allow-list fails with the
\* forbidden-port error.
C11_InvalidRequestRejected ==
  \A c \in Conns : \A m \in Methods : \A a \in Authorities : \A r \in Rests :
    (cinput[c] = RequestOf(m, a, r) /\ ParsedWhole(c)) =>
      /\ m # CONNECT =>
           (~pres[c].ok /\ pres[c].err = "unsupported_method")
      /\ (m = CONNECT /\ (Colons(a) # 1 \/ AfterColon(a) = <<>>)) =>
           ~pres[c].ok
      /\ (m = CONNECT /\ Colons(a) = 1 /\ AfterColon(a) # <<>>
             /\ ~IsBase10Integer(AfterColon(a))) =>
           ~pres[c].ok
      /\ (m = CONNECT /\ Colons(a) = 1 /\ IsBase10Integer(AfterColon(a))
             /\ Base10Value(AfterColon(a)) \notin OK_CONNECT_PORTS) =>
           (~pres[c].ok /\ pres[c].err = "forbidden_port")

\* C12: for a request 'CONNECT host:port rest', its port in the allow-list,
\* the parser returns exactly (host, port): the host is the authority's text
\* before the ':', the port the value of the text after it, and nothing of
\* the rest of the head changes the result.
C12_ExactTarget ==
  \A c \in Conns : \A h \in Hosts : \A n \in OK_CONNECT_PORTS : \A r \in Rests :
    (cinput[c] = RequestOf(CONNECT, h \o <<":">> \o str(n), r) /\ ParsedWhole(c))
      => pres[c] = [ok |-> TRUE, err |-> "", host |-> h, port |-> n]

C12_Witness ==
  \E c \in Conns :
    /\ cinput[c] = RequestOf(CONNECT, <<"e","x",".","c","o",":","8","4","4","3">>,
                             <<"H","\r","\n","A",":"," ","g",":","8","0">>)
    /\ ParsedWhole(c)
    /\ pres[c].ok /\ pres[c].host = <<"e","x",".","c","o">> /\ pres[c].port = 8443

\* C13: connection ids are unique and increase in the order in which the
\* handlers start: a handler's id is assigned when it starts, is greater
\* than every id assigned before, and never changes afterwards.
C13_ConnIdsUnique ==
  [][\A c \in Conns :
       /\ connid[c] # 0 => connid'[c] = connid[c]
       /\ (connid[c] = 0 /\ connid'[c] # 0) =>
            /\ hpc[c] = "idle" /\ hpc'[c] = "parse"
            /\ \A o \in Conns \ {c} : connid'[c] > connid[o]
       /\ (hpc'[c] \notin {"absent", "idle"}) <=> connid'[c] # 0
       /\ \A o \in Conns \ {c} : connid'[c] # 0 => connid'[c] # connid'[o]]_vars

C13_Witness ==
  /\ connid[2] = 1 /\ connid[1] = 2
  /\ hpc[1] = "relay" /\ hpc[2] = "relay"

\* C14: the parser never receives more than bufmaxlen bytes, and when no
\* terminator ends within the first bufmaxlen bytes the client sends, the
\* parse fails because the request did not fit (or the read failed), no
\* second read is made and the handler ends without a connect.
C14_BoundedParse ==
  \A c \in Conns :
    /\ nparsed[c] <= bufmaxlen
    /\ (hpc[c] \notin {"absent", "idle", "parse"}
          /\ NoTerminatorWithin(cinput[c], bufmaxlen)) =>
         /\ ~pres[c].ok /\ pres[c].err \in {"did_not_fit", "receive_failed"}
         /\ hpc[c] = "done" /\ outcome[c] = "parse_failure"
         /\ nconnect[c] = 0 /\ cout[c] = <<>>

C14_Witness ==
  \E c \in Conns :
    /\ bufmaxlen < Len(cinput[c])
    /\ IsPrefix(CONNECT, cinput[c]) /\ endswith(cinput[c], TERMINATOR)
    /\ nparsed[c] = bufmaxlen
    /\ pres[c].err = "did_not_fit" /\ hpc[c] = "done"

\* C16: each pipe holds at most one chunk, of at most bufmaxlen bytes: what
\* it has read from its source and not written to its sink is that chunk,
\* and it holds none while it waits in receive_some.
C16_OneChunkInFlight ==
  \A c \in Conns : \A d \in Dirs :
    /\ Len(chunk[c][d]) <= bufmaxlen
    /\ chunk[c][d] # <<>> => ppc[c][d] = "send"
    /\ (ppc[c][d] \in PipeLive /\ d = "->") =>
         ClientSent(c) = dout[c] \o chunk[c][d] \o cin[c]
    /\ (ppc[c][d] \in PipeLive /\ d = "<-") =>
         dinput[c] = Relayed(c) \o chunk[c][d] \o din[c]

C16_Witness ==
  \E c \in Conns : \E d \in Dirs :
    /\ ppc[c][d] = "send" /\ Len(chunk[c][d]) = bufmaxlen
    /\ Source(c, d) # <<>> /\ bufmaxlen < BUFMAXLEN

\* C15: the phases follow one another and each needs the one before it:
\* open_tcp_stream is called only for a parsed request, the 200 response is
\* written only on a connected destination, pipes exist only once the 200
\* response is written in full, so no payload byte reaches either peer
\* before it, and the relay phase has one pipe per direction.  A failed
\* phase is the last one.
C15_PhasesInOrder ==
  \A c \in Conns :
    /\ nconnect[c] > 0 => pres[c].ok
    /\ dopened[c] > 0 => nconnect[c] > 0
    /\ cout[c] # <<>> => dopened[c] > 0
    /\ (\E d \in Dirs : ppc[c][d] # "none") =>
         (IsPrefix(RESPONSE_200, cout[c]) /\ dopened[c] = 1)
    /\ dout[c] # <<>> => IsPrefix(RESPONSE_200, cout[c])
    /\ Len(cout[c]) > Len(RESPONSE_200) => IsPrefix(RESPONSE_200, cout[c])
    /\ hpc[c] = "relay" => \A d \in Dirs : ppc[c][d] # "none"
    /\ hpc[c] \in {"absent", "idle", "parse", "connect", "send200"} =>
         \A d \in Dirs : ppc[c][d] = "none"
    /\ outcome[c] = "parse_failure" => (nconnect[c] = 0 /\ hpc[c] = "done")
    /\ outcome[c] = "connect_failure" =>
         (dopened[c] = 0 /\ cout[c] = <<>> /\ hpc[c] = "done")
    /\ outcome[c] \in {"parse_failure", "connect_failure", "send200_failure"} =>
         (dout[c] = <<>> /\ \A d \in Dirs : ppc[c][d] = "none")

C15_Witness ==
  \E c \in Conns :
    /\ hpc[c] = "relay" /\ \A d \in Dirs : ppc[c][d] \in PipeLive
    /\ dout[c] # <<>> /\ Relayed(c) # <<>>

\* C17: every log event carries the context of the task that printed it:
\* the id of that task's connection; before the destination is known no
\* host and no direction; afterwards the connection's own destination host
\* and, for a pipe, '->' exactly when it reads the client stream and '<-'
\* when it reads the destination stream.
C17_LogsOwnContext ==
  \A e \in logs :
    /\ e.line.id = connid[e.conn]
    /\ ~e.dest_known => (e.line.direction = "" /\ e.line.host = <<>>)
    /\ e.dest_known =>
         /\ e.line.host = pres[e.conn].host
         /\ e.line.direction = IF e.task = "http_proxy" THEN "<>" ELSE e.task
    /\ e.line.msg \in {"Forwarded", "Pipe finished"} <=> e.task \in Dirs

C17_Witness ==
  \E e1 \in logs : \E e2 \in logs :
    /\ e1.conn = 1 /\ e1.task = "->" /\ e1.line.msg = "Forwarded"
    /\ e1.line.direction = "->" /\ e1.line.host = <<"h">> /\ e1.line.id = 2
    /\ e2.conn = 2 /\ e2.task = "<-" /\ e2.line.msg = "Pipe finished"
    /\ e2.line.direction = "<-" /\ e2.line.host = <<"g">> /\ e2.line.id = 1
    /\ hpc[1] = "relay" /\ hpc[2] = "relay"

\* C18: when every pending read and write completes and the tasks are
\* scheduled fairly, a handler that has started ends with the client stream
\* closed and, if the relay was entered, the destination stream closed;
\* a handler whose pipes have both ended does not stay in the relay phase.
C18_HandlerEnds ==
  \A c \in Conns :
    /\ (hpc[c] = "parse") ~>
         (/\ hpc[c] = "done" /\ cclosed[c] = 1
          /\ (ppc[c]["->"] # "none" => dclosed[c] = 1))
    /\ (hpc[c] = "relay" /\ ChildrenDone(c)) ~> (hpc[c] = "done")

C18_Witness ==
  \E c \in Conns :
    /\ hpc[c] = "done" /\ outcome[c] = "relay_error"
    /\ cclosed[c] = 1 /\ dclosed[c] = 1
    /\ ppc[c]["->"] = "cancelled" /\ ppc[c]["<-"] = "failed"

\* C19: half-close: when one direction has ended at end-of-stream and the
\* other is still running, the nursery is not cancelled and neither stream
\* is closed; the other direction can still write the chunk it holds and
\* receive what its source has sent; and when it ends at end-of-stream too,
\* its sink has received everything its source sent.
C19_HalfClose ==
  \A c \in Conns : \A d \in Dirs :
    (hpc[c] = "relay" /\ ppc[c][d] = "finished") =>
      /\ ppc[c][Other(d)] \in PipeLive =>
           /\ cancelled[c] = "no"
           /\ cclosed[c] = 0 /\ dclosed[c] = 0
           /\ ppc[c][Other(d)] = "send" => ENABLED PipeSends(c, Other(d))
           /\ (ppc[c][Other(d)] = "recv" /\ Source(c, Other(d)) # <<>>) =>
                ENABLED PipeReceives(c, Other(d))
      /\ ppc[c][Other(d)] = "finished" =>
           (dout[c] = ClientSent(c) /\ Relayed(c) = dinput[c])

C19_Witness ==
  \E c \in Conns :
    /\ hpc[c] = "relay" /\ cancelled[c] = "no"
    /\ ppc[c]["<-"] = "finished" /\ dinput[c] = <<>>
    /\ ppc[c]["->"] = "send" /\ dout[c] # <<>> /\ cin[c] # <<>>

\* the bytes a sequence holds
Range(seq) == {seq[j] : j \in 1..Len(seq)}

\* C20: no byte of the CONNECT request reaches the destination: the
\* destination receives only bytes the client sent after the bytes the
\* parser received, which hold the whole request, and only once the 200
\* response is written; until the relay starts nothing else takes bytes
\* off the client stream.
C20_RequestNotForwarded ==
  \A c \in Conns :
    /\ hpc[c] \in {"connect", "send200"} => cin[c] = ClientSent(c)
    /\ dout[c] # <<>> =>
         /\ pres[c].ok /\ IsPrefix(RESPONSE_200, cout[c])
         /\ \E r \in GoodRequests :
              IsPrefix(r, cinput[c]) /\ nparsed[c] = Len(r)
         /\ Len(dout[c]) <= Len(cinput[c]) - nparsed[c]
         /\ dout[c] = SubSeq(cinput[c], nparsed[c] + 1, nparsed[c] + Len(dout[c]))
         /\ Range(dout[c]) \subseteq Range(CLIENT_DATA)

C20_Witness ==
  \E c \in Conns :
    /\ IsPrefix(REQ_OK_ALT, cinput[c]) /\ nparsed[c] = Len(REQ_OK_ALT)
    /\ hpc[c] = "relay" /\ ppc[c]["->"] = "recv" /\ cin[c] = <<>>
    /\ dout[c] = SubSeq(CLIENT_DATA, 1, 2)

=============================================================================
